---- MODULE Spec2Model ----
(***************************************************************************)
(* A model of DataBase.py: the in-memory mapping (DataBase), its pickle    *)
(* persistence (SerializedDataBase) and the lock/semaphore protocol of     *)
(* SynchronizedDataBase.value_set / value_get / value_delete.              *)
(*                                                                         *)
(* Every thread walks through its call one statement at a time; pc[t] is   *)
(* the statement thread t executes next.                                   *)
(***************************************************************************)
EXTENDS Integers, Sequences, FiniteSets, TLC

\* ------------------------------------------------------------------ bounds
NThreads == 2
MaxKey == 2
MaxVal == 2
MaxCalls == 3

\* --------------------------------------------------------- program constant
read_limit == 10

Keys == 1..MaxKey
Values == 1..MaxVal

\* ------------------------------------------------------- python result values
None == [kind |-> "None", val |-> 0]
True_ == [kind |-> "bool", val |-> 1]
False_ == [kind |-> "bool", val |-> 0]
Val(v) == [kind |-> "int", val |-> v]

\* ------------------------------------------------------------ DataBase (dict)
\* A dict is a function whose DOMAIN is the set of keys present.
EmptyDict == [k \in {} |-> 0]

\* set_value that stores the value whether or not the key is present.
set_value_data_overwrite(d, key, value) ==
  [k \in (DOMAIN d) \cup {key} |-> IF k = key THEN value ELSE d[k]]

\* set_value that rebinds self.data to a dict holding the new entry alone.
set_value_data_alone(d, key, value) ==
  IF key \in DOMAIN d THEN d ELSE [k \in {key} |-> value]

\* DataBase.set_value: the mapping after the call.
set_value_data(d, key, value) ==
  IF key \in DOMAIN d
    THEN d
    ELSE [k \in (DOMAIN d) \cup {key} |-> IF k = key THEN value ELSE d[k]]

\* set_value that answers True whether or not it inserted.
set_value_result_always(d, key) == True_

\* DataBase.set_value: the value it returns.
set_value_result(d, key) == IF key \in DOMAIN d THEN False_ ELSE True_

\* DataBase.get_value
get_value(d, key) == IF key \in DOMAIN d THEN Val(d[key]) ELSE None

\* delete that reads the value (get instead of pop) and removes nothing.
delete_data_keep(d, key) == d

\* DataBase.delete: the mapping after the call.
delete_data(d, key) ==
  IF key \in DOMAIN d THEN [k \in (DOMAIN d) \ {key} |-> d[k]] ELSE d

\* DataBase.delete: the value it returns.
delete_result(d, key) == IF key \in DOMAIN d THEN Val(d[key]) ELSE None

\* ------------------------------------------------------------------- pickle
\* The file holds a sequence of pickle opcodes: a protocol header, one
\* SETITEM per entry, and the closing STOP.
PROTO == [op |-> "PROTO", k |-> 0, v |-> 0]
STOP == [op |-> "STOP", k |-> 0, v |-> 0]
BAD == [op |-> "BAD", k |-> 0, v |-> 0]
Item(k, v) == [op |-> "SETITEM", k |-> k, v |-> v]

RECURSIVE Items(_, _)
Items(d, ks) ==
  IF ks = {} THEN <<>>
  ELSE LET k == CHOOSE x \in ks : \A y \in ks : x <= y
       IN <<Item(k, d[k])>> \o Items(d, ks \ {k})

\* pickle.dump(self.data, f)
Dumps(d) == <<PROTO>> \o Items(d, DOMAIN d) \o <<STOP>>

\* The opcodes between the header and STOP, when the blob is well formed.
Body(b) == SubSeq(b, 2, Len(b) - 1)

WellFormed(b) ==
  /\ Len(b) >= 2
  /\ b[1] = PROTO
  /\ b[Len(b)] = STOP
  /\ \A j \in 2..(Len(b) - 1) : b[j].op = "SETITEM"

\* pickle.load(f): what the call does on the bytes b.
\* "EOFError" on no input (an empty file, or one that ends right after the
\* header), "UnpicklingError" on any other blob that is not a whole pickle.
LoadOutcome(b) ==
  IF Len(b) = 0 \/ b = <<PROTO>> THEN "EOFError"
  ELSE IF WellFormed(b) THEN "ok"
  ELSE "UnpicklingError"

\* pickle.load(f): the dict a well-formed blob decodes to (a later SETITEM
\* of the same key wins, as in a dict).
Loads(b) ==
  LET body == Body(b)
      ks == {body[j].k : j \in 1..Len(body)}
      last(k) == CHOOSE j \in 1..Len(body) :
                   /\ body[j].k = k
                   /\ \A m \in 1..Len(body) : body[m].k = k => m <= j
  IN [k \in ks |-> body[last(k)].v]

\* The backing file: absent, or present with its bytes.
Missing == [exists |-> FALSE, bytes |-> <<>>]
File(b) == [exists |-> TRUE, bytes |-> b]

\* SerializedDataBase.load: "ok" / "masked" (the except branch) / "raised".
load_outcome(f) ==
  IF ~f.exists THEN "masked"
  ELSE IF LoadOutcome(f.bytes) = "EOFError" THEN "masked"
  ELSE IF LoadOutcome(f.bytes) = "ok" THEN "ok"
  ELSE "raised"

\* load that reads the file and drops what it read.
load_data_dropped(f, d) == IF load_outcome(f) = "raised" THEN d ELSE EmptyDict

\* load that merges what it read into the mapping: self.data.update(...).
load_data_merged(f, d) ==
  IF load_outcome(f) = "ok"
    THEN [k \in DOMAIN d \cup DOMAIN Loads(f.bytes) |->
            IF k \in DOMAIN Loads(f.bytes) THEN Loads(f.bytes)[k] ELSE d[k]]
  ELSE d

\* SerializedDataBase.load: the mapping self.data holds after a load that
\* returned (d is the mapping before, kept when the load raises).
load_data(f, d) ==
  IF load_outcome(f) = "ok" THEN Loads(f.bytes)
  ELSE IF load_outcome(f) = "masked" THEN EmptyDict
  ELSE d


\* ---------------------------------------------------------------- the calls
NoCall == [name |-> "none", key |-> 0, value |-> 0]
Gets == {[name |-> "get", key |-> k, value |-> 0] : k \in Keys}
Sets == {[name |-> "set", key |-> k, value |-> v] : k \in Keys, v \in Values}
Deletes == {[name |-> "delete", key |-> k, value |-> 0] : k \in Keys}
Calls == Gets \cup Sets \cup Deletes

VARIABLES
  store,           \* "new" before SynchronizedDataBase(...), "open" once
                   \* __init__ returned, "failed" when __init__ raised
  mode,            \* 'threads' or 'processes' (the constructor's argument)
  data,            \* self.data of each copy of the store object
  file,            \* the backing file self.filename
  write_lock,      \* self.write_lock : 0 when free, else the holder
  read_lock,       \* self.read_lock
  data_lock,       \* self.data_lock
  read_semaphore,  \* the value of self.read_semaphore
  pc,              \* the statement each caller executes next
  call,            \* the call each caller is in (NoCall when in none)
  i,               \* the loop counter of `for _ in range(self.read_limit)`
  result,          \* the local `result` (value_set, value_delete) / `data` (value_get)
  menu,            \* the calls each caller may make
  budget,          \* how many calls each caller may still start
  log,             \* whether completed calls are recorded in hist
  hist,            \* the two most recently completed calls, oldest first
  db2,             \* a second store object opened on the same path
  halted           \* the callers that stopped for good (killed or hung) mid-call

vars == <<store, mode, data, file, write_lock, read_lock, data_lock,
          read_semaphore, pc, call, i, result, menu, budget, log, hist, db2,
          halted>>

Procs == DOMAIN pc

\* The copy of the object a caller works on: threads share one object; a
\* process works on its own copy of the object (the primitives are shared).
Obj(t) == IF mode = "threads" THEN 0 ELSE t

Objs(m, ps) == IF m = "threads" THEN {0} ELSE ps

\* ------------------------------------------------------------ initial files
\* What the backing path may hold before the store is opened.
InitFiles ==
  { Missing,
    File(<<>>),
    File(Dumps(EmptyDict)),
    File(Dumps([k \in {1} |-> 1])),
    File(<<PROTO, Item(1, 1)>>),
    File(<<BAD>>) }

InitCommon(ps, m) ==
  /\ store = "new"
  /\ mode = m
  /\ data = [o \in Objs(m, ps) |-> EmptyDict]
  /\ file \in InitFiles
  /\ write_lock = 0
  /\ read_lock = 0
  /\ data_lock = 0
  /\ read_semaphore = read_limit
  /\ pc = [t \in ps |-> "idle"]
  /\ call = [t \in ps |-> NoCall]
  /\ i = [t \in ps |-> 0]
  /\ result = [t \in ps |-> None]
  /\ hist = <<>>
  /\ db2 = [state |-> "none", data |-> EmptyDict]
  /\ halted = {}

\* NThreads callers, each making one call of any kind on a store in
\* 'threads' mode, opened on a path with no file, a stored mapping or
\* corrupt bytes.
Init ==
  /\ InitCommon(1..NThreads, "threads")
  /\ file \in {Missing, File(Dumps([k \in {1} |-> 1])), File(<<BAD>>)}
  /\ menu = [t \in 1..NThreads |-> Calls]
  /\ budget = [t \in 1..NThreads |-> 1]
  /\ log = FALSE

\* ------------------------------------------------- SynchronizedDataBase.__init__
\* super().__init__(filename) sets self.data = {} and calls self.load(); the
\* primitives are created afterwards.  An exception of load() leaves __init__.
Construct ==
  /\ store = "new"
  /\ store' = IF load_outcome(file) = "raised" THEN "failed" ELSE "open"
  /\ data' = [o \in DOMAIN data |-> load_data(file, EmptyDict)]
  /\ UNCHANGED <<mode, file, write_lock, read_lock, data_lock, read_semaphore,
                 pc, call, i, result, menu, budget, log, hist, db2, halted>>

\* A second object constructed on the same path: its __init__ loads the file
\* (no primitive of the first object is involved).
Reopen ==
  /\ store = "open"
  /\ db2' = [state |-> IF load_outcome(file) = "raised" THEN "raised" ELSE "ok",
             data |-> load_data(file, EmptyDict)]
  /\ db2.state = "none"
  /\ UNCHANGED <<store, mode, data, file, write_lock, read_lock, data_lock,
                 read_semaphore, pc, call, i, result, menu, budget, log, hist, halted>>

\* ------------------------------------------------------------ call and return
\* A caller starts one of the calls on its menu.  Calls are started on the
\* first object until a second object is opened on its path.
Invoke(t) ==
  /\ store = "open"
  /\ db2.state = "none"
  /\ pc[t] = "idle"
  /\ budget[t] > 0
  /\ \E c \in menu[t] :
       /\ call' = [call EXCEPT ![t] = c]
       /\ pc' = [pc EXCEPT ![t] = IF c.name = "get" THEN "r_acquire" ELSE "w_write_lock"]
  /\ budget' = [budget EXCEPT ![t] = @ - 1]
  /\ UNCHANGED <<store, mode, data, file, write_lock, read_lock, data_lock,
                 read_semaphore, i, result, menu, log, hist, db2, halted>>

\* The two most recent entries of a record of calls.
LastTwo(h) == IF Len(h) > 2 THEN Tail(h) ELSE h

\* `return result` / `return data`
Return(t) ==
  /\ pc[t] = "return"
  /\ pc' = [pc EXCEPT ![t] = "idle"]
  /\ hist' = IF log THEN LastTwo(Append(hist, [call |-> call[t], result |-> result[t]]))
                  ELSE hist
  /\ call' = [call EXCEPT ![t] = NoCall]
  /\ result' = [result EXCEPT ![t] = None]
  /\ UNCHANGED <<store, mode, data, file, write_lock, read_lock, data_lock,
                 read_semaphore, i, menu, budget, log, db2, halted>>

\* ------------------------------------------------ value_set / value_delete
\* AcquireWriteLock with a lock that does not exclude a second holder.
AcquireWriteLock_shared(t) ==
  /\ pc[t] = "w_write_lock"
  /\ write_lock' = t
  /\ pc' = [pc EXCEPT ![t] = "w_read_lock"]
  /\ UNCHANGED <<store, mode, data, file, read_lock, data_lock, read_semaphore,
                 call, i, result, menu, budget, log, hist, db2, halted>>

\* with self.write_lock:
AcquireWriteLock(t) ==
  /\ pc[t] = "w_write_lock"
  /\ write_lock = 0
  /\ write_lock' = t
  /\ pc' = [pc EXCEPT ![t] = "w_read_lock"]
  /\ UNCHANGED <<store, mode, data, file, read_lock, data_lock, read_semaphore,
                 call, i, result, menu, budget, log, hist, db2, halted>>

\* with self.read_lock:
AcquireReadLock(t) ==
  /\ pc[t] = "w_read_lock"
  /\ read_lock = 0
  /\ read_lock' = t
  /\ pc' = [pc EXCEPT ![t] = "w_drain"]
  /\ i' = [i EXCEPT ![t] = 0]
  /\ UNCHANGED <<store, mode, data, file, write_lock, data_lock, read_semaphore,
                 call, result, menu, budget, log, hist, db2, halted>>

\* Drain with the loop one iteration short: range(self.read_limit - 1).
Drain_short(t) ==
  /\ pc[t] = "w_drain"
  /\ i[t] < read_limit - 1
  /\ read_semaphore > 0
  /\ read_semaphore' = read_semaphore - 1
  /\ i' = [i EXCEPT ![t] = @ + 1]
  /\ pc' = [pc EXCEPT ![t] = IF i[t] + 1 = read_limit - 1 THEN "w_data_lock" ELSE "w_drain"]
  /\ UNCHANGED <<store, mode, data, file, write_lock, read_lock, data_lock,
                 call, result, menu, budget, log, hist, db2, halted>>

\* for _ in range(self.read_limit): self.read_semaphore.acquire()
\* One iteration; the acquire blocks while the semaphore is 0.
Drain(t) ==
  /\ pc[t] = "w_drain"
  /\ i[t] < read_limit
  /\ read_semaphore > 0
  /\ read_semaphore' = read_semaphore - 1
  /\ i' = [i EXCEPT ![t] = @ + 1]
  /\ pc' = [pc EXCEPT ![t] = IF i[t] + 1 = read_limit THEN "w_data_lock" ELSE "w_drain"]
  /\ UNCHANGED <<store, mode, data, file, write_lock, read_lock, data_lock,
                 call, result, menu, budget, log, hist, db2, halted>>

\* with self.data_lock:
AcquireDataLock(t) ==
  /\ pc[t] = "w_data_lock"
  /\ data_lock = 0
  /\ data_lock' = t
  /\ pc' = [pc EXCEPT ![t] = "w_mutate"]
  /\ UNCHANGED <<store, mode, data, file, write_lock, read_lock, read_semaphore,
                 call, i, result, menu, budget, log, hist, db2, halted>>

\* Mutate with the save skipped when the call leaves the mapping as it was.
Mutate_skip(t) ==
  /\ pc[t] = "w_mutate"
  /\ LET d == data[Obj(t)]
         c == call[t]
         d2 == IF c.name = "set" THEN set_value_data(d, c.key, c.value)
               ELSE delete_data(d, c.key)
     IN /\ data' = [data EXCEPT ![Obj(t)] = d2]
        /\ result' = [result EXCEPT ![t] =
                      IF c.name = "set" THEN set_value_result(d, c.key)
                      ELSE delete_result(d, c.key)]
        /\ pc' = [pc EXCEPT ![t] = IF d2 = d THEN "w_data_unlock" ELSE "w_save"]
  /\ UNCHANGED <<store, mode, file, write_lock, read_lock, data_lock,
                 read_semaphore, call, i, menu, budget, log, hist, db2, halted>>

\* result = super().set_value(key, value)  /  result = super().delete(key)
Mutate(t) ==
  /\ pc[t] = "w_mutate"
  /\ LET d == data[Obj(t)]
         c == call[t]
     IN /\ data' = [data EXCEPT ![Obj(t)] =
                      IF c.name = "set" THEN set_value_data(d, c.key, c.value)
                      ELSE delete_data(d, c.key)]
        /\ result' = [result EXCEPT ![t] =
                      IF c.name = "set" THEN set_value_result(d, c.key)
                      ELSE delete_result(d, c.key)]
  /\ pc' = [pc EXCEPT ![t] = "w_save"]
  /\ UNCHANGED <<store, mode, file, write_lock, read_lock, data_lock,
                 read_semaphore, call, i, menu, budget, log, hist, db2, halted>>

\* self.save(): open(self.filename, 'wb') creates or truncates the file.
SaveOpen(t) ==
  /\ pc[t] = "w_save"
  /\ file' = File(<<>>)
  /\ pc' = [pc EXCEPT ![t] = "w_dump"]
  /\ UNCHANGED <<store, mode, data, write_lock, read_lock, data_lock,
                 read_semaphore, call, i, result, menu, budget, log, hist, db2, halted>>

\* self.save(): pickle.dump writes through a buffered file, so a prefix of
\* the blob may reach the file before the rest.
SaveFlush(t) ==
  /\ pc[t] = "w_dump"
  /\ file = File(<<>>)
  /\ \E n \in 1..(Len(Dumps(data[Obj(t)])) - 1) :
       file' = File(SubSeq(Dumps(data[Obj(t)]), 1, n))
  /\ UNCHANGED <<store, mode, data, write_lock, read_lock, data_lock,
                 read_semaphore, pc, call, i, result, menu, budget, log, hist, db2, halted>>

\* SaveClose with the dump left out: the file stays as open() left it.
SaveClose_nodump(t) ==
  /\ pc[t] = "w_dump"
  /\ pc' = [pc EXCEPT ![t] = "w_data_unlock"]
  /\ UNCHANGED <<store, mode, data, file, write_lock, read_lock, data_lock,
                 read_semaphore, call, i, result, menu, budget, log, hist, db2, halted>>

\* self.save(): leaving the `with open(...)` block, the whole blob is in the file.
SaveClose(t) ==
  /\ pc[t] = "w_dump"
  /\ file' = File(Dumps(data[Obj(t)]))
  /\ pc' = [pc EXCEPT ![t] = "w_data_unlock"]
  /\ UNCHANGED <<store, mode, data, write_lock, read_lock, data_lock,
                 read_semaphore, call, i, result, menu, budget, log, hist, db2, halted>>

\* ReleaseDataLock with the release loop indented into the data_lock block:
\* the permits go back while data_lock is still held.
ReleaseDataLock_late(t) ==
  /\ pc[t] = "w_data_unlock"
  /\ pc' = [pc EXCEPT ![t] = "w_release"]
  /\ i' = [i EXCEPT ![t] = 0]
  /\ UNCHANGED <<store, mode, data, file, write_lock, read_lock, data_lock,
                 read_semaphore, call, result, menu, budget, log, hist, db2, halted>>

\* leaving `with self.data_lock:`
ReleaseDataLock(t) ==
  /\ pc[t] = "w_data_unlock"
  /\ data_lock' = 0
  /\ pc' = [pc EXCEPT ![t] = "w_release"]
  /\ i' = [i EXCEPT ![t] = 0]
  /\ UNCHANGED <<store, mode, data, file, write_lock, read_lock, read_semaphore,
                 call, result, menu, budget, log, hist, db2, halted>>

\* ReleasePermit with the loop one iteration short: range(self.read_limit - 1).
ReleasePermit_short(t) ==
  /\ pc[t] = "w_release"
  /\ i[t] < read_limit - 1
  /\ read_semaphore' = read_semaphore + 1
  /\ i' = [i EXCEPT ![t] = IF i[t] + 1 = read_limit - 1 THEN 0 ELSE @ + 1]
  /\ pc' = [pc EXCEPT ![t] = IF i[t] + 1 = read_limit - 1 THEN "w_read_unlock" ELSE "w_release"]
  /\ UNCHANGED <<store, mode, data, file, write_lock, read_lock, data_lock,
                 call, result, menu, budget, log, hist, db2, halted>>

\* for _ in range(self.read_limit): self.read_semaphore.release()
ReleasePermit(t) ==
  /\ pc[t] = "w_release"
  /\ i[t] < read_limit
  /\ read_semaphore' = read_semaphore + 1
  /\ i' = [i EXCEPT ![t] = IF i[t] + 1 = read_limit THEN 0 ELSE @ + 1]
  /\ pc' = [pc EXCEPT ![t] = IF i[t] + 1 = read_limit THEN "w_read_unlock" ELSE "w_release"]
  /\ UNCHANGED <<store, mode, data, file, write_lock, read_lock, data_lock,
                 call, result, menu, budget, log, hist, db2, halted>>

\* leaving `with self.read_lock:`
ReleaseReadLock(t) ==
  /\ pc[t] = "w_read_unlock"
  /\ read_lock' = 0
  /\ pc' = [pc EXCEPT ![t] = "w_write_unlock"]
  /\ UNCHANGED <<store, mode, data, file, write_lock, data_lock, read_semaphore,
                 call, i, result, menu, budget, log, hist, db2, halted>>

\* leaving `with self.write_lock:`
ReleaseWriteLock(t) ==
  /\ pc[t] = "w_write_unlock"
  /\ write_lock' = 0
  /\ pc' = [pc EXCEPT ![t] = "return"]
  /\ UNCHANGED <<store, mode, data, file, read_lock, data_lock, read_semaphore,
                 call, i, result, menu, budget, log, hist, db2, halted>>

\* ------------------------------------------------------------------ value_get
\* AcquirePermit with acquire(blocking=False) and its answer ignored.
AcquirePermit_noblock(t) ==
  /\ pc[t] = "r_acquire"
  /\ read_semaphore' = IF read_semaphore > 0 THEN read_semaphore - 1 ELSE read_semaphore
  /\ pc' = [pc EXCEPT ![t] = "r_load"]
  /\ UNCHANGED <<store, mode, data, file, write_lock, read_lock, data_lock,
                 call, i, result, menu, budget, log, hist, db2, halted>>

\* if self.read_semaphore.acquire():
AcquirePermit(t) ==
  /\ pc[t] = "r_acquire"
  /\ read_semaphore > 0
  /\ read_semaphore' = read_semaphore - 1
  /\ pc' = [pc EXCEPT ![t] = "r_load"]
  /\ UNCHANGED <<store, mode, data, file, write_lock, read_lock, data_lock,
                 call, i, result, menu, budget, log, hist, db2, halted>>

\* self.load(): an exception other than FileNotFoundError and EOFError
\* leaves value_get with the permit still held.
Load(t) ==
  /\ pc[t] = "r_load"
  /\ data' = [data EXCEPT ![Obj(t)] = load_data(file, @)]
  /\ pc' = [pc EXCEPT ![t] = IF load_outcome(file) = "raised" THEN "raised" ELSE "r_get"]
  /\ UNCHANGED <<store, mode, file, write_lock, read_lock, data_lock,
                 read_semaphore, call, i, result, menu, budget, log, hist, db2, halted>>

\* data = super().get_value(key)
Lookup(t) ==
  /\ pc[t] = "r_get"
  /\ result' = [result EXCEPT ![t] = get_value(data[Obj(t)], call[t].key)]
  /\ pc' = [pc EXCEPT ![t] = "r_release"]
  /\ UNCHANGED <<store, mode, data, file, write_lock, read_lock, data_lock,
                 read_semaphore, call, i, menu, budget, log, hist, db2, halted>>

\* ReleaseReader with the release written twice.
ReleaseReader_twice(t) ==
  /\ pc[t] = "r_release"
  /\ read_semaphore' = read_semaphore + 2
  /\ pc' = [pc EXCEPT ![t] = "return"]
  /\ UNCHANGED <<store, mode, data, file, write_lock, read_lock, data_lock,
                 call, i, result, menu, budget, log, hist, db2, halted>>

\* self.read_semaphore.release()
ReleaseReader(t) ==
  /\ pc[t] = "r_release"
  /\ read_semaphore' = read_semaphore + 1
  /\ pc' = [pc EXCEPT ![t] = "return"]
  /\ UNCHANGED <<store, mode, data, file, write_lock, read_lock, data_lock,
                 call, i, result, menu, budget, log, hist, db2, halted>>

\* ------------------------------------------------------------ specification
\* The calls through one store object.
Next ==
  \/ Construct
  \/ \E t \in Procs : Invoke(t)
  \/ \E t \in Procs : Return(t)
  \/ \E t \in Procs : AcquireWriteLock(t)
  \/ \E t \in Procs : AcquireReadLock(t)
  \/ \E t \in Procs : Drain(t)
  \/ \E t \in Procs : AcquireDataLock(t)
  \/ \E t \in Procs : Mutate(t)
  \/ \E t \in Procs : SaveOpen(t)
  \/ \E t \in Procs : SaveFlush(t)
  \/ \E t \in Procs : SaveClose(t)
  \/ \E t \in Procs : ReleaseDataLock(t)
  \/ \E t \in Procs : ReleasePermit(t)
  \/ \E t \in Procs : ReleaseReadLock(t)
  \/ \E t \in Procs : ReleaseWriteLock(t)
  \/ \E t \in Procs : AcquirePermit(t)
  \/ \E t \in Procs : Load(t)
  \/ \E t \in Procs : Lookup(t)
  \/ \E t \in Procs : ReleaseReader(t)

Spec == Init /\ [][Next]_vars

\* ------------------------------------------------------- positions of a call
\* A reader between its semaphore acquire and its release.
ActiveReader(t) == pc[t] \in {"r_load", "r_get", "r_release"}

\* A writer inside `with self.data_lock:` (its mutate-and-save step).
Writing(t) == pc[t] \in {"w_mutate", "w_save", "w_dump", "w_data_unlock"}

\* A writer between acquiring write_lock and releasing it.
InWriteSection(t) ==
  pc[t] \in {"w_read_lock", "w_drain", "w_data_lock", "w_mutate", "w_save", "w_dump",
             "w_data_unlock", "w_release", "w_read_unlock", "w_write_unlock"}

\* The permits a writer holds: those it drained and has not yet given back.
PermitsHeld(t) ==
  IF pc[t] = "w_drain" THEN i[t]
  ELSE IF pc[t] \in {"w_data_lock", "w_mutate", "w_save", "w_dump", "w_data_unlock"}
    THEN read_limit
  ELSE IF pc[t] = "w_release" THEN read_limit - i[t]
  ELSE 0

ActiveReaders == {t \in Procs : ActiveReader(t)}

\* The mapping the backing file holds (none while the file is not a whole pickle).
Readable(f) == load_outcome(f) # "raised"
Persisted(f) == load_data(f, EmptyDict)

\* ------------------------------------------------------------------ claims

\* C1: reader/writer non-overlap. Whenever a writer is inside its
\* mutate-and-save step, the semaphore is fully drained (value 0, so the
\* writer holds all read_limit permits) and no reader is between its acquire
\* and its release.
C1_ReaderWriterNonOverlap ==
  \A w \in Procs :
    Writing(w) =>
      /\ read_semaphore = 0
      /\ PermitsHeld(w) = read_limit
      /\ ActiveReaders = {}

\* A writer is saving while a reader waits at its acquire.
C1_Witness ==
  \E w, r \in Procs : pc[w] = "w_dump" /\ pc[r] = "r_acquire"

\* C2: writer mutual exclusion. At most one caller is between acquiring
\* write_lock and releasing it, that caller is the lock's holder, and no
\* other caller holds drained permits.
C2_WriterMutualExclusion ==
  \A w \in Procs :
    InWriteSection(w) =>
      /\ write_lock = w
      /\ \A u \in Procs \ {w} : ~InWriteSection(u) /\ PermitsHeld(u) = 0

\* One writer is in its critical section while another waits for write_lock.
C2_Witness ==
  \E w, u \in Procs : pc[w] = "w_save" /\ pc[u] = "w_write_lock"

\* C5: reads observe only committed states. When a value_get is about to
\* release its permit, the value it will return is the value of its key in
\* the backing file at that instant, the file is a whole pickle (or absent)
\* and no writer is between its mutation and the end of its save; while the
\* reader looks up, the in-memory mapping is the persisted one.
C5_ReadsSeeCommitted ==
  \A r \in Procs :
    /\ pc[r] \in {"r_get", "r_release"} =>
         /\ Readable(file)
         /\ data[Obj(r)] = Persisted(file)
         /\ \A w \in Procs : ~Writing(w)
    /\ pc[r] = "r_release" => result[r] = get_value(Persisted(file), call[r].key)
    /\ pc[r] # "raised"

\* A get that overlapped a completed write returns the written value.
C5_Witness ==
  \E r, w \in Procs :
    /\ pc[r] = "r_release"
    /\ result[r].kind = "int"
    /\ call[w].name = "set"
    /\ pc[w] = "return"
    /\ result[w] = True_
    /\ call[w].key = call[r].key

\* The in-memory mapping of caller t's object is what the backing file holds.
Consistent(t) ==
  /\ file.exists
  /\ LoadOutcome(file.bytes) = "ok"
  /\ Loads(file.bytes) = data[Obj(t)]

\* A writer that has mutated the mapping and not yet finished saving it.
Unsaved(t) == pc[t] \in {"w_save", "w_dump"}

IsWrite(t) == call[t].name \in {"set", "delete"}

InitSeq ==
  /\ InitCommon({1}, "threads")
  /\ menu = [t \in {1} |-> Calls]
  /\ budget = [t \in {1} |-> MaxCalls]
  /\ log = TRUE

NextSeq == Next \/ Reopen

SpecSeq == InitSeq /\ [][NextSeq]_vars

\* ------------------------------------------------------ claims on call sequences
\* The calls of caller t in the order it made them: the recorded ones and,
\* when t stands at its return statement, the call it is returning from.
Trace(t) ==
  IF pc[t] = "return" THEN Append(hist, [call |-> call[t], result |-> result[t]])
  ELSE hist

IsSet(e, k) == e.call.name = "set" /\ e.call.key = k
IsGet(e, k) == e.call.name = "get" /\ e.call.key = k
IsDelete(e, k) == e.call.name = "delete" /\ e.call.key = k

\* C6: insert-if-absent. Of consecutive calls of one caller: a value_set(k, v)
\* on an absent key (k was just looked up as None, or just deleted) returns
\* True; after a value_set(k, v) that returned True, value_get(k) returns v
\* and any value_set(k, v2) returns False, also with a value_get(k) in between;
\* and a value_set that returned False changes no entry: a value_get(k2) of
\* any key (k included) returns after it what it returned before it.
C6_InsertIfAbsent ==
  \A t \in Procs :
    LET S == Trace(t)
    IN /\ \A j \in 1..(Len(S) - 1), k \in Keys :
            /\ (IsGet(S[j], k) /\ S[j].result = None /\ IsSet(S[j + 1], k))
                 => S[j + 1].result = True_
            /\ (IsDelete(S[j], k) /\ IsSet(S[j + 1], k)) => S[j + 1].result = True_
            /\ (IsSet(S[j], k) /\ S[j].result = True_ /\ IsGet(S[j + 1], k))
                 => S[j + 1].result = Val(S[j].call.value)
            /\ (IsSet(S[j], k) /\ S[j].result = True_ /\ IsSet(S[j + 1], k))
                 => S[j + 1].result = False_
       /\ \A j \in 1..(Len(S) - 2), k \in Keys :
            /\ (IsSet(S[j], k) /\ S[j].result = True_ /\ IsSet(S[j + 1], k) /\ IsGet(S[j + 2], k))
                 => S[j + 2].result = Val(S[j].call.value)
            /\ (IsSet(S[j], k) /\ S[j].result = True_ /\ IsGet(S[j + 1], k) /\ IsSet(S[j + 2], k))
                 => S[j + 2].result = False_
            /\ \A k2 \in Keys :
                 (IsGet(S[j], k2) /\ IsSet(S[j + 1], k) /\ S[j + 1].result = False_
                    /\ IsGet(S[j + 2], k2))
                   => S[j + 2].result = S[j].result

\* set(1, 1) returned True, set(1, 2) returned False, and get(1) is
\* returning 1.
C6_Witness ==
  /\ Len(hist) = 2
  /\ hist[1] = [call |-> [name |-> "set", key |-> 1, value |-> 1], result |-> True_]
  /\ hist[2] = [call |-> [name |-> "set", key |-> 1, value |-> 2], result |-> False_]
  /\ \E t \in Procs :
       /\ pc[t] = "return"
       /\ call[t] = [name |-> "get", key |-> 1, value |-> 0]
       /\ result[t] = Val(1)

\* C7: delete-then-get. Of consecutive calls of one caller: value_delete(k)
\* of a present key (just looked up as v, or just inserted with v) returns v;
\* value_get(k) after value_delete(k) returns None; value_delete(k) of an
\* absent key (just looked up as None, or just deleted) returns None; and a
\* value_delete(k) changes no other entry: a value_get(k2), k2 # k, returns
\* after it what it returned before it.
C7_DeleteThenGet ==
  \A t \in Procs :
    LET S == Trace(t)
    IN /\ \A j \in 1..(Len(S) - 1), k \in Keys :
            /\ (IsGet(S[j], k) /\ IsDelete(S[j + 1], k)) => S[j + 1].result = S[j].result
            /\ (IsSet(S[j], k) /\ S[j].result = True_ /\ IsDelete(S[j + 1], k))
                 => S[j + 1].result = Val(S[j].call.value)
            /\ (IsDelete(S[j], k) /\ IsGet(S[j + 1], k)) => S[j + 1].result = None
            /\ (IsDelete(S[j], k) /\ IsDelete(S[j + 1], k)) => S[j + 1].result = None
       /\ \A j \in 1..(Len(S) - 2), k \in Keys, k2 \in Keys :
            (k2 # k /\ IsGet(S[j], k2) /\ IsDelete(S[j + 1], k) /\ IsGet(S[j + 2], k2))
              => S[j + 2].result = S[j].result

\* set(2, 2) returned True, delete(2) returned 2, and get(2) is returning None.
C7_Witness ==
  /\ Len(hist) = 2
  /\ hist[1] = [call |-> [name |-> "set", key |-> 2, value |-> 2], result |-> True_]
  /\ hist[2] = [call |-> [name |-> "delete", key |-> 2, value |-> 0], result |-> Val(2)]
  /\ \E t \in Procs :
       /\ pc[t] = "return"
       /\ call[t] = [name |-> "get", key |-> 2, value |-> 0]
       /\ result[t] = None

\* --------------------------------------------------------- claims on restore
\* A file load() cannot deserialize: absent, empty or truncated, or corrupt.
Unreadable(f) == ~f.exists \/ LoadOutcome(f.bytes) # "ok"

\* C9: restore masks every unreadable file to an empty store. Whenever the
\* store is opened on a backing file that is missing, empty, truncated or
\* corrupt, load() returns normally (__init__ completes) and leaves the
\* in-memory mapping empty.
C9_RestoreMasksUnreadable ==
  [][(store = "new" /\ store' # "new" /\ Unreadable(file))
       => (store' = "open" /\ \A o \in DOMAIN data' : data'[o] = EmptyDict)]_vars

\* C10: reload round trip. When a second store object is opened on the path
\* while no call is in progress and a value_set / value_delete has completed,
\* its load succeeds and its mapping equals the first object's mapping (the
\* one last saved); if the call last completed is a value_set(k, v) that
\* returned True, the new object maps k to v and its value_get(k), which
\* loads the file again and looks k up, returns v.
C10_ReloadRoundTrip ==
  [][(/\ db2.state = "none"
      /\ db2'.state # "none"
      /\ \A t \in Procs : pc[t] = "idle"
      /\ \E j \in 1..Len(hist) : hist[j].call.name \in {"set", "delete"})
       => (/\ db2'.state = "ok"
           /\ \A t \in Procs : db2'.data = data[Obj(t)]
           /\ LET e == hist[Len(hist)]
              IN (e.call.name = "set" /\ e.result = True_)
                   => /\ e.call.key \in DOMAIN db2'.data
                      /\ db2'.data[e.call.key] = e.call.value
                      /\ get_value(load_data(file', db2'.data), e.call.key)
                           = Val(e.call.value))]_vars

\* A second object, opened right after set(2, 1) returned True, maps 2 to 1.
C10_Witness ==
  /\ db2.state = "ok"
  /\ 2 \in DOMAIN db2.data
  /\ db2.data[2] = 1
  /\ Len(hist) > 0
  /\ hist[Len(hist)] = [call |-> [name |-> "set", key |-> 2, value |-> 1], result |-> True_]
  /\ \A t \in Procs : pc[t] = "idle"

\* ------------------------------------------- concurrent inserts of distinct keys
\* Callers 1..NThreads each call value_set once, caller t with key t (absent
\* from the file the store is opened on); caller 0 calls value_get, up to
\* MaxCalls times, in between.
Writers == 1..NThreads

SetOf(t) == [name |-> "set", key |-> t, value |-> ((t - 1) % MaxVal) + 1]

InitDistinct ==
  /\ InitCommon({0} \cup Writers, "threads")
  /\ Unreadable(file) \/ Loads(file.bytes) = EmptyDict
  /\ menu = [t \in {0} \cup Writers |-> IF t = 0 THEN Gets ELSE {SetOf(t)}]
  /\ budget = [t \in {0} \cup Writers |-> IF t = 0 THEN MaxCalls ELSE 1]
  /\ log = FALSE

SpecDistinct == InitDistinct /\ [][Next]_vars

AllReturned == \A t \in Procs : pc[t] = "idle" /\ (t \in Writers => budget[t] = 0)

Readers == 1..(read_limit + 1)

Progress(t) ==
  IF pc[t] = "idle" THEN (IF budget[t] > 0 THEN 0 ELSE 6)
  ELSE IF pc[t] = "r_acquire" THEN 1
  ELSE IF pc[t] = "r_load" THEN 2
  ELSE IF pc[t] = "r_get" THEN 3
  ELSE IF pc[t] = "r_release" THEN 4
  ELSE 5

InOrder == \A t \in Readers \ {1} : Progress(t) <= Progress(t - 1)

InitReaders ==
  /\ InitCommon({0} \cup Readers, "threads")
  /\ file \in {Missing, File(Dumps([k \in {1} |-> 2]))}
  /\ menu = [t \in {0} \cup Readers |->
               IF t = 0 THEN {[name |-> "set", key |-> 1, value |-> 1]}
               ELSE {[name |-> "get", key |-> 1, value |-> 0]}]
  /\ budget = [t \in {0} \cup Readers |-> 1]
  /\ log = FALSE

NextReaders == Next /\ InOrder'

SpecReaders == InitReaders /\ [][NextReaders]_vars

\* C4: bounded concurrent readers. At most read_limit value_get calls are
\* between their acquire and their release; and while read_limit of them are,
\* the semaphore is 0, so no further value_get can pass its acquire.
C4_BoundedReaders ==
  /\ Cardinality(ActiveReaders) <= read_limit
  /\ Cardinality(ActiveReaders) = read_limit =>
       /\ read_semaphore = 0
       /\ \A t \in Procs : ~ENABLED AcquirePermit(t)

\* read_limit readers are mid-operation and one more waits at its acquire.
C4_Witness ==
  /\ Cardinality(ActiveReaders) = read_limit
  /\ \E t \in Procs : pc[t] = "r_acquire"

\* ------------------------------------------- callers that write their own value
\* NThreads callers, each making one call: a value_get or a value_delete of
\* any key, or a value_set of any key to the caller's own value.
OwnValue(t) == ((t - 1) % MaxVal) + 1

OwnCalls(t) ==
  Gets \cup Deletes \cup {[name |-> "set", key |-> k, value |-> OwnValue(t)] : k \in Keys}

InitOwn(m) ==
  /\ InitCommon(1..NThreads, m)
  /\ file \in {Missing, File(Dumps([k \in {1} |-> 1]))}
  /\ menu = [t \in 1..NThreads |-> OwnCalls(t)]
  /\ budget = [t \in 1..NThreads |-> 1]
  /\ log = FALSE

InitThreads == InitOwn("threads")

SpecThreads == InitThreads /\ [][Next]_vars

\* The permits held by the writers, summed over the callers in ps.
RECURSIVE SumPermitsHeld(_)
SumPermitsHeld(ps) ==
  IF ps = {} THEN 0
  ELSE LET t == CHOOSE x \in ps : TRUE
       IN PermitsHeld(t) + SumPermitsHeld(ps \ {t})

\* C19: permit conservation. The semaphore's value is between 0 and
\* read_limit and equals read_limit minus the number of active readers minus
\* the permits the draining or releasing writer holds; when no call is in
\* progress it is read_limit and write_lock, read_lock and data_lock are free.
C19_PermitConservation ==
  /\ read_semaphore \in 0..read_limit
  /\ read_semaphore = read_limit - Cardinality(ActiveReaders) - SumPermitsHeld(Procs)
  /\ (\A t \in Procs : pc[t] = "idle") =>
       /\ read_semaphore = read_limit
       /\ write_lock = 0
       /\ read_lock = 0
       /\ data_lock = 0

\* A writer has drained four permits while a reader holds one: five are left.
C19_Witness ==
  \E w, r \in Procs :
    /\ pc[w] = "w_drain"
    /\ i[w] = 4
    /\ pc[r] = "r_get"
    /\ read_semaphore = read_limit - 5

\* C20: read_lock and data_lock are never contended. A caller about to
\* acquire read_lock or data_lock holds write_lock and finds the lock free,
\* and a holder of read_lock or data_lock is the holder of write_lock.
C20_InnerLocksUncontended ==
  /\ \A t \in Procs :
       /\ pc[t] = "w_read_lock" => (write_lock = t /\ read_lock = 0 /\ ENABLED AcquireReadLock(t))
       /\ pc[t] = "w_data_lock" => (write_lock = t /\ data_lock = 0 /\ ENABLED AcquireDataLock(t))
  /\ read_lock # 0 => read_lock = write_lock
  /\ data_lock # 0 => data_lock = write_lock

\* One writer is about to take data_lock while another waits for write_lock.
C20_Witness ==
  \E w, u \in Procs : pc[w] = "w_data_lock" /\ pc[u] = "w_write_lock"

\* ---------------------------------------------------------- no-op writes
\* Caller t is about to run a mutation that leaves the mapping as it is:
\* set_value on a present key, delete on an absent one.
NoOp(t) ==
  /\ pc[t] = "w_mutate"
  /\ IF call[t].name = "set" THEN call[t].key \in DOMAIN data[Obj(t)]
     ELSE call[t].key \notin DOMAIN data[Obj(t)]

\* Caller t is a writer past such a mutation: set_value answered False,
\* delete answered None.
NoOpDone(t) ==
  /\ pc[t] \in {"w_save", "w_dump", "w_data_unlock", "w_release", "w_read_unlock",
                "w_write_unlock"}
  /\ result[t] = IF call[t].name = "set" THEN False_ ELSE None

C18_WritePathOrder ==
  [][\A t \in Procs :
       /\ (write_lock # t /\ write_lock' = t) =>
            /\ pc[t] = "w_write_lock"
            /\ read_lock # t /\ data_lock # t /\ PermitsHeld(t) = 0
       /\ (read_lock # t /\ read_lock' = t) =>
            /\ write_lock = t
            /\ data_lock # t /\ PermitsHeld(t) = 0
       /\ (PermitsHeld(t)' > PermitsHeld(t)) =>
            /\ read_semaphore' = read_semaphore - 1
            /\ PermitsHeld(t)' = PermitsHeld(t) + 1
            /\ write_lock = t /\ read_lock = t
            /\ data_lock # t
       /\ (data_lock # t /\ data_lock' = t) =>
            /\ write_lock = t /\ read_lock = t
            /\ PermitsHeld(t) = read_limit /\ read_semaphore = 0
            /\ pc'[t] = "w_mutate"
       /\ (pc[t] = "w_mutate" /\ pc'[t] # pc[t]) =>
            /\ data_lock = t
            /\ file' = file
            /\ pc'[t] = "w_save"
       /\ (pc[t] \in {"w_save", "w_dump"} /\ file' # file) =>
            /\ data_lock = t
            /\ data' = data
       /\ (data_lock = t /\ data_lock' # t) =>
            /\ file = File(Dumps(data[Obj(t)]))
            /\ PermitsHeld(t) = read_limit /\ read_semaphore = 0
            /\ write_lock = t /\ read_lock = t
       /\ (PermitsHeld(t)' < PermitsHeld(t)) =>
            /\ read_semaphore' = read_semaphore + 1
            /\ PermitsHeld(t)' = PermitsHeld(t) - 1
            /\ data_lock = 0
            /\ file = File(Dumps(data[Obj(t)]))
            /\ write_lock = t /\ read_lock = t
       /\ (read_lock = t /\ read_lock' # t) =>
            /\ PermitsHeld(t) = 0 /\ data_lock # t
            /\ write_lock = t /\ write_lock' = t
       /\ (write_lock = t /\ write_lock' # t) =>
            /\ read_lock # t /\ data_lock # t /\ PermitsHeld(t) = 0
            /\ pc'[t] = "return"
       /\ (IsWrite(t) /\ pc'[t] = "return" /\ pc[t] # "return") =>
            write_lock = t /\ write_lock' = 0
    ]_vars
  /\ [][(file' # file) => \E t \in Procs : pc[t] \in {"w_save", "w_dump"} /\ data_lock = t]_vars
  /\ [][(store = "open" /\ data' # data) =>
        \E t \in Procs : pc[t] \in {"w_mutate", "r_load"} /\ pc'[t] # pc[t]]_vars

\* A writer that inserted its key is half-way through giving the permits
\* back: the file already holds the new mapping.
C18_Witness ==
  \E t \in Procs :
    /\ pc[t] = "w_release"
    /\ i[t] = 5
    /\ result[t] = True_
    /\ file = File(Dumps(data[Obj(t)]))
    /\ write_lock = t /\ read_lock = t /\ data_lock = 0

\* ------------------------------------------------------- 'processes' mode
\* Every caller is a process with its own copy of the mapping; the file, the
\* locks and the semaphore are shared.
InitProcesses == InitOwn("processes")

SpecProcesses == InitProcesses /\ [][Next]_vars

\* C12: readers never mutate. No step of a value_get changes the backing
\* file; its acquire takes one permit and its release gives one back, and
\* nothing else in the call touches the semaphore; its load replaces the
\* caller's in-memory mapping by exactly the file's mapping (entries the
\* file does not hold are gone, not merged) and touches no other process's
\* mapping; its other steps leave every mapping as it is.
C12_ReadersNeverMutate ==
  [][\A t \in Procs :
       (pc[t] \in {"r_acquire", "r_load", "r_get", "r_release"} /\ pc'[t] # pc[t]) =>
         /\ file' = file
         /\ write_lock' = write_lock /\ read_lock' = read_lock /\ data_lock' = data_lock
         /\ pc[t] = "r_acquire" => (read_semaphore' = read_semaphore - 1 /\ data' = data)
         /\ pc[t] = "r_load" =>
              /\ read_semaphore' = read_semaphore
              /\ data'[Obj(t)] = Persisted(file)
              /\ \A o \in DOMAIN data \ {Obj(t)} : data'[o] = data[o]
         /\ pc[t] = "r_get" =>
              /\ read_semaphore' = read_semaphore /\ data' = data
              /\ result'[t] = get_value(Persisted(file), call[t].key)
         /\ pc[t] = "r_release" =>
              /\ read_semaphore' = read_semaphore + 1 /\ data' = data
              /\ pc'[t] = "return"
    ]_vars

\* A reader whose own copy held an entry has reloaded after another process
\* deleted that entry: it is gone from the reader's copy.
C12_Witness ==
  \E t \in Procs :
    /\ mode = "processes"
    /\ pc[t] = "r_get"
    /\ data[t] = EmptyDict
    /\ \E u \in Procs \ {t} :
         pc[u] = "return" /\ call[u].name = "delete" /\ result[u].kind = "int"

\* C14: writes in 'processes' mode preserve other processes' updates. Every
\* value_set / value_delete mutates the mapping the backing file holds just
\* before the write: after its mutation step the writer's mapping is the
\* file's mapping with that one mutation applied, value_set answers False
\* exactly when the file already holds the key, and the save then leaves the
\* file holding that mapping.
C14_ProcessWritesPreserve ==
  [][\A t \in Procs :
       /\ (pc[t] = "w_mutate" /\ pc'[t] # pc[t]) =>
            LET f == Persisted(file)
                c == call[t]
            IN /\ data'[Obj(t)] = IF c.name = "set" THEN set_value_data(f, c.key, c.value)
                                  ELSE delete_data(f, c.key)
               /\ result'[t] = IF c.name = "set" THEN set_value_result(f, c.key)
                               ELSE delete_result(f, c.key)
       /\ (pc[t] = "w_dump" /\ pc'[t] # pc[t]) => file' = File(Dumps(data[Obj(t)]))
    ]_vars

\* ------------------------------------------------- one key, several writers
\* Every caller inserts the same key, each with a value of its own (its
\* caller number), or looks that key up; the key is absent at the start.
SameKey == 1

SameKeyCalls(t) ==
  {[name |-> "set", key |-> SameKey, value |-> t],
   [name |-> "get", key |-> SameKey, value |-> 0]}

InitSameKey ==
  /\ InitCommon(1..NThreads, "threads")
  /\ file \in {Missing, File(Dumps(EmptyDict))}
  /\ menu = [t \in 1..NThreads |-> SameKeyCalls(t)]
  /\ budget = [t \in 1..NThreads |-> 1]
  /\ log = FALSE

SpecSameKey == InitSameKey /\ [][Next]_vars

\* A value_set that has run its mutation and not yet returned.
Mutated(t) ==
  /\ call[t].name = "set"
  /\ pc[t] \in {"w_save", "w_dump", "w_data_unlock", "w_release", "w_read_unlock",
                "w_write_unlock", "return"}

Proceed(t) ==
  \/ AcquireWriteLock(t) \/ AcquireReadLock(t) \/ Drain(t) \/ AcquireDataLock(t)
  \/ Mutate(t) \/ SaveOpen(t) \/ SaveFlush(t) \/ SaveClose(t) \/ ReleaseDataLock(t)
  \/ ReleasePermit(t) \/ ReleaseReadLock(t) \/ ReleaseWriteLock(t)
  \/ AcquirePermit(t) \/ Load(t) \/ Lookup(t) \/ ReleaseReader(t)
  \/ Return(t)

\* The scheduler runs every caller that can take a step: a thread blocked in
\* an acquire is woken once the lock or a permit is free and stays free.
SpecLive ==
  /\ InitThreads
  /\ [][Next]_vars
  /\ \A t \in 1..NThreads : WF_vars(Proceed(t))

Pending(t) == pc[t] # "idle"

\* C17: deadlock freedom and termination. With no caller crashing or
\* failing and every runnable caller eventually run, every call that has
\* begun returns (its caller is idle again), and in every state with a
\* pending call some pending caller has an enabled step.
C17_EveryCallReturns ==
  /\ \A t \in 1..NThreads : Pending(t) ~> ~Pending(t)
  /\ []((\E t \in 1..NThreads : Pending(t)) =>
          \E t \in 1..NThreads : Pending(t) /\ ENABLED Proceed(t))

\* A draining writer holds all permits but one and waits for the reader
\* that holds the last one.
C17_Witness ==
  \E w, r \in Procs :
    /\ pc[w] = "w_drain" /\ i[w] = read_limit - 1
    /\ read_semaphore = 0
    /\ ActiveReader(r)
    /\ ~ENABLED Proceed(w)

\* ------------------------------------------------------ stalls and failures
\* Writer t stops for good (its thread hangs, its process is killed) while it
\* holds reader permits: it takes no further step and releases nothing.
Halt(t) ==
  /\ t \notin halted
  /\ PermitsHeld(t) >= 1
  /\ halted' = halted \cup {t}
  /\ UNCHANGED <<store, mode, data, file, write_lock, read_lock, data_lock,
                 read_semaphore, pc, call, i, result, menu, budget, log, hist, db2>>

\* self.save(): open(self.filename, 'wb') raises (OSError); the exception
\* leaves `with self.data_lock:` first.
SaveOpenFails(t) ==
  /\ pc[t] = "w_save"
  /\ pc' = [pc EXCEPT ![t] = "x_data_unlock"]
  /\ UNCHANGED <<store, mode, data, file, write_lock, read_lock, data_lock,
                 read_semaphore, call, i, result, menu, budget, log, hist, db2, halted>>

\* DumpFails with the permits given back on the way out, as a try/finally
\* around the critical section would do.
DumpFails_released(t) ==
  /\ pc[t] = "w_dump"
  /\ read_semaphore' = read_limit
  /\ pc' = [pc EXCEPT ![t] = "x_data_unlock"]
  /\ UNCHANGED <<store, mode, data, file, write_lock, read_lock, data_lock,
                 call, i, result, menu, budget, log, hist, db2, halted>>

\* self.save(): pickle.dump (or the write behind it) raises; the file stays
\* as the open and the writes so far left it.
DumpFails(t) ==
  /\ pc[t] = "w_dump"
  /\ pc' = [pc EXCEPT ![t] = "x_data_unlock"]
  /\ UNCHANGED <<store, mode, data, file, write_lock, read_lock, data_lock,
                 read_semaphore, call, i, result, menu, budget, log, hist, db2, halted>>

\* The exception leaves `with self.data_lock:`; the release loop is skipped.
UnwindDataLock(t) ==
  /\ pc[t] = "x_data_unlock"
  /\ data_lock' = 0
  /\ pc' = [pc EXCEPT ![t] = "x_read_unlock"]
  /\ UNCHANGED <<store, mode, data, file, write_lock, read_lock, read_semaphore,
                 call, i, result, menu, budget, log, hist, db2, halted>>

\* The exception leaves `with self.read_lock:`.
UnwindReadLock(t) ==
  /\ pc[t] = "x_read_unlock"
  /\ read_lock' = 0
  /\ pc' = [pc EXCEPT ![t] = "x_write_unlock"]
  /\ UNCHANGED <<store, mode, data, file, write_lock, data_lock, read_semaphore,
                 call, i, result, menu, budget, log, hist, db2, halted>>

\* The exception leaves `with self.write_lock:` and value_set / value_delete.
UnwindWriteLock(t) ==
  /\ pc[t] = "x_write_unlock"
  /\ write_lock' = 0
  /\ pc' = [pc EXCEPT ![t] = "raised"]
  /\ UNCHANGED <<store, mode, data, file, read_lock, data_lock, read_semaphore,
                 call, i, result, menu, budget, log, hist, db2, halted>>

\* The calls through one store object, with writers that may stall and saves
\* that may fail. A stalled caller takes no step.
NextFault ==
  \/ Construct
  \/ \E t \in Procs \ halted : Invoke(t)
  \/ \E t \in Procs \ halted : Return(t)
  \/ \E t \in Procs \ halted : AcquireWriteLock(t)
  \/ \E t \in Procs \ halted : AcquireReadLock(t)
  \/ \E t \in Procs \ halted : Drain(t)
  \/ \E t \in Procs \ halted : AcquireDataLock(t)
  \/ \E t \in Procs \ halted : Mutate(t)
  \/ \E t \in Procs \ halted : SaveOpen(t)
  \/ \E t \in Procs \ halted : SaveFlush(t)
  \/ \E t \in Procs \ halted : SaveClose(t)
  \/ \E t \in Procs \ halted : ReleaseDataLock(t)
  \/ \E t \in Procs \ halted : ReleasePermit(t)
  \/ \E t \in Procs \ halted : ReleaseReadLock(t)
  \/ \E t \in Procs \ halted : ReleaseWriteLock(t)
  \/ \E t \in Procs \ halted : AcquirePermit(t)
  \/ \E t \in Procs \ halted : Load(t)
  \/ \E t \in Procs \ halted : Lookup(t)
  \/ \E t \in Procs \ halted : ReleaseReader(t)
  \/ \E t \in Procs : Halt(t)
  \/ \E t \in Procs \ halted : SaveOpenFails(t)
  \/ \E t \in Procs \ halted : DumpFails(t)
  \/ \E t \in Procs \ halted : UnwindDataLock(t)
  \/ \E t \in Procs \ halted : UnwindReadLock(t)
  \/ \E t \in Procs \ halted : UnwindWriteLock(t)

SpecFault == InitThreads /\ [][NextFault]_vars

\* Some caller completes a value_get / a value_set or value_delete in this step.
GetCompletes == \E t \in Procs : pc[t] = "r_release" /\ pc'[t] = "return"
WriteCompletes == \E t \in Procs : pc[t] = "w_write_unlock" /\ pc'[t] = "return"

\* A reader gets past its semaphore acquire in this step.
GetAdmitted == \E t \in Procs : pc[t] = "r_acquire" /\ pc'[t] = "r_load"

\* C11 as stated: once a writer has stopped for good holding at least one
\* permit (also mid-drain, with fewer than read_limit), no value_get and no
\* other value_set / value_delete completes.
C11_Original ==
  [][(\E w \in halted : PermitsHeld(w) >= 1) => (~GetCompletes /\ ~WriteCompletes)]_vars

\* C11: stalled-writer starvation. A writer that has stopped for good after
\* it began draining keeps write_lock, so no other caller is inside the write
\* path past that lock and no value_set / value_delete completes; while it
\* holds all read_limit permits the semaphore is 0, no reader is active, and
\* no value_get is admitted or completes. (A writer stopped with fewer
\* permits leaves the rest to the readers.)
C11_StalledWriterBlocks ==
  /\ [](\A w \in halted :
          /\ write_lock = w /\ read_lock = w
          /\ \A u \in Procs \ {w} :
               /\ ~InWriteSection(u)
               /\ pc[u] = "w_write_lock" => ~ENABLED AcquireWriteLock(u)
          /\ read_semaphore = read_limit - PermitsHeld(w) - Cardinality(ActiveReaders)
          /\ PermitsHeld(w) = read_limit =>
               /\ read_semaphore = 0
               /\ ActiveReaders = {}
               /\ \A u \in Procs : pc[u] = "r_acquire" => ~ENABLED AcquirePermit(u))
  /\ [][(halted # {}) => ~WriteCompletes]_vars
  /\ [][(\E w \in halted : PermitsHeld(w) = read_limit) => (~GetAdmitted /\ ~GetCompletes)]_vars
  /\ [][\A w \in halted : w \in halted' /\ pc'[w] = pc[w] /\ i'[w] = i[w]]_vars

\* A writer has stopped in the middle of its save, holding every permit,
\* while a reader waits at its acquire.
C11_Witness ==
  \E w \in halted : \E r \in Procs :
    /\ pc[w] = "w_dump"
    /\ pc[r] = "r_acquire"
    /\ read_semaphore = 0

\* ------------------------------------------------- a save that fails
\* Writer t's save raised: the exception is on its way out of the call, or
\* has left it.
Failed(t) ==
  /\ IsWrite(t)
  /\ pc[t] \in {"x_data_unlock", "x_read_unlock", "x_write_unlock", "raised"}

\* The mutation of caller t's call changed the mapping.
Changed(t) ==
  IF call[t].name = "set" THEN result[t] = True_ ELSE result[t].kind = "int"

\* C15: error inside the write critical section. Once a writer's save() has
\* failed after the drain, the semaphore is 0 and stays 0 although that
\* writer gives back data_lock, read_lock and write_lock: no reader is
\* active and none can pass its acquire, no other writer is past the start
\* of its drain and none can take a permit, so no call completes any more;
\* and the in-memory mapping carries the mutation (the inserted entry, the
\* removed key) while the file does not hold that mapping.
C15_FailedSaveKeepsPermits ==
  /\ [](\A t \in Procs :
          Failed(t) =>
            /\ read_semaphore = 0
            /\ ActiveReaders = {}
            /\ \A u \in Procs :
                 /\ pc[u] = "r_acquire" => ~ENABLED AcquirePermit(u)
                 /\ InWriteSection(u) =>
                      /\ pc[u] \in {"w_read_lock", "w_drain"}
                      /\ pc[u] = "w_drain" => (i[u] = 0 /\ ~ENABLED Drain(u))
            /\ pc[t] = "raised" => (write_lock # t /\ read_lock # t /\ data_lock # t)
            /\ Changed(t) =>
                 /\ ~Consistent(t)
                 /\ IF call[t].name = "set"
                      THEN /\ call[t].key \in DOMAIN data[Obj(t)]
                           /\ data[Obj(t)][call[t].key] = call[t].value
                      ELSE call[t].key \notin DOMAIN data[Obj(t)])
  /\ [][(\E t \in Procs : Failed(t)) =>
          /\ ~GetAdmitted /\ ~GetCompletes /\ ~WriteCompletes
          /\ read_semaphore' = 0
          /\ \A t \in Procs : Failed(t) => Failed(t)']_vars

\* A writer's insert failed in save and the exception has left the call;
\* another writer has since taken write_lock and read_lock and waits for its
\* first permit.
C15_Witness ==
  \E t, u \in Procs :
    /\ pc[t] = "raised" /\ call[t].name = "set" /\ result[t] = True_
    /\ pc[u] = "w_drain" /\ i[u] = 0
    /\ write_lock = u /\ read_lock = u
    /\ read_semaphore = 0

====
